---- MODULE Spec2Model ----
(***************************************************************************)
(* timedb.py: a SQLite cache of per-tool runtime statistics (table         *)
(* "runtimes"), reconciled against a tool catalog (Galaxy /api/tools) and  *)
(* a run history (PostgreSQL job tables) by App.handle_tool_changes.       *)
(*                                                                         *)
(* Strings are sequences of one-character strings, so that startswith,     *)
(* rsplit and the f-string of Tool.key are computed as Python computes     *)
(* them.  A nullable column or attribute is a set with at most one         *)
(* element: None is {} and the value v is {v}.  Times are weeks.           *)
(*                                                                         *)
(* Spec is the run of main, LiveSpec the passes repeated under fairness,   *)
(* OpsSpec the three statements of commit_tool on their own, ToolSpec      *)
(* class Tool on its own.                                                  *)
(***************************************************************************)
EXTENDS Integers, Sequences, FiniteSets, TLC

VARIABLES
    runtimes,       \* the rows of table runtimes, in rowid order
    catalog,        \* the JSON array /api/tools answers with
    history,        \* the job tables: (tool_id, tool_version) -> aggregates
    older_than,     \* App.older_than: the --older-than option, as given
    tool_id,        \* args.tool_id of the run: None when --tool-id is not given
    tool_args,      \* the arguments of a call Tool(id, version, base_id): None before it
    now,            \* the clock of datetime('now') / CURRENT_TIMESTAMP
    pc,             \* where handle_tool_changes stands
    err,            \* the exception that ended the pass, "none" if none
    server_tools,   \* local of handle_tool_changes (a dict, in insertion order)
    db_tools,       \* local of handle_tool_changes (a dict, in insertion order)
    to_insert,      \* what is left of the loop over server_tool_keys - db_tool_keys
    to_deactivate,  \* what is left of the loop over db_tool_keys - server_tool_keys
    to_update,      \* what is left of the loop over get_db_tools(for_update=True)
    tool,           \* local "tool" of handle_tool_changes: None while unbound
    log,            \* the statements commit_tool has committed in this pass
    runtimes0,      \* the table as it was when the pass started
    second          \* this pass started right after a completed one

vars == <<runtimes, catalog, history, older_than, tool_id, tool_args, now, pc, err, server_tools, db_tools,
          to_insert, to_deactivate, to_update, tool, log, runtimes0, second>>

-----------------------------------------------------------------------------
(* Bounds of the model *)

MaxCatalog == 2
MaxTime == 4
MaxOps == 2

(* the staleness window the default of --older-than names ("1 week"), in weeks *)
Window == 1

-----------------------------------------------------------------------------
(* Values *)

None == {}

Some(v) == {v}

Val(x) == CHOOSE v \in x : TRUE

Sep == "/"

StartsWith(s, p) == Len(p) <= Len(s) /\ SubSeq(s, 1, Len(p)) = p

HasSep(s) == \E i \in 1..Len(s) : s[i] = Sep

LastSep(s) == CHOOSE i \in 1..Len(s) : s[i] = Sep /\ \A j \in (i+1)..Len(s) : s[j] # Sep

(* str.rsplit("/", 1) of a string that holds a "/" *)
RSplit(s) == <<SubSeq(s, 1, LastSep(s) - 1), SubSeq(s, LastSep(s) + 1, Len(s))>>

(* int(x) of a non-negative number kept in tenths; int(None) raises *)
int(x) == Val(x) \div 10

-----------------------------------------------------------------------------
(* class Tool *)

(* Tool.set_base_id with "self.base_id in self.id" for startswith *)
set_base_id_raises_contains(id, version, base_id) ==
    IF base_id # None
    THEN ~\E i \in 1..(Len(id) - Len(Val(base_id)) + 1) :
            SubSeq(id, i, i + Len(Val(base_id)) - 1) = Val(base_id)
    ELSE HasSep(id) /\ version # RSplit(id)[2]

(* Tool.set_base_id without the assert of line 150 *)
set_base_id_raises_unchecked(id, version, base_id) ==
    IF base_id # None
    THEN ~StartsWith(id, Val(base_id))
    ELSE FALSE

(* Tool.set_base_id raises: one of its asserts fails *)
set_base_id_raises(id, version, base_id) ==
    IF base_id # None
    THEN ~StartsWith(id, Val(base_id))
    ELSE HasSep(id) /\ version # RSplit(id)[2]

(* Tool.set_base_id: the base_id attribute it leaves, when it raises nothing *)
set_base_id(id, version, base_id) ==
    IF base_id # None
    THEN Val(base_id)
    ELSE IF HasSep(id) THEN RSplit(id)[1] ELSE id

(* Tool.__init__ succeeds: version is not None and set_base_id raises nothing *)
ToolOk(id, version, base_id) ==
    /\ version # None
    /\ ~set_base_id_raises(id, Val(version), base_id)

(* Tool.__init__, for arguments it accepts *)
Tool(id, version, base_id, update_time, run_count, mn, med, mean, p95, p99, mx, active) ==
    [id |-> id, version |-> Val(version),
     base_id |-> set_base_id(id, Val(version), base_id),
     update_time |-> update_time, run_count |-> run_count,
     min_runtime |-> mn, median_runtime |-> med, mean_runtime |-> mean,
     pct95_runtime |-> p95, pct99_runtime |-> p99, max_runtime |-> mx,
     active |-> active]

(* Tool(id, version): every other argument at its default *)
NewTool(id, version) ==
    Tool(id, version, None, None, -1, None, None, None, None, None, None, TRUE)

(* Tool.key *)
key(t) == t.base_id \o <<Sep>> \o t.version

(* Tool.update_stats raises: int(None) *)
update_stats_raises(summary) ==
    \/ summary.min = None
    \/ summary.median = None
    \/ summary.mean = None
    \/ summary.perc_95 = None
    \/ summary.perc_99 = None
    \/ summary.max = None

(* Tool.update_stats, for a summary it accepts *)
update_stats(t, summary) ==
    [t EXCEPT !.min_runtime = Some(int(summary.min)),
              !.median_runtime = Some(int(summary.median)),
              !.mean_runtime = Some(int(summary.mean)),
              !.pct95_runtime = Some(int(summary.perc_95)),
              !.pct99_runtime = Some(int(summary.perc_99)),
              !.max_runtime = Some(int(summary.max))]

(* Tool.upsert_values *)
upsert_values(t) ==
    [tool_id |-> t.id, base_tool_id |-> t.base_id, tool_version |-> t.version,
     run_count |-> t.run_count, min_runtime |-> t.min_runtime,
     median_runtime |-> t.median_runtime, mean_runtime |-> t.mean_runtime,
     pct95_runtime |-> t.pct95_runtime, pct99_runtime |-> t.pct99_runtime,
     max_runtime |-> t.max_runtime]

(* tool_factory with row[0:1] for row[1:2]: tool_id is passed as base_id *)
tool_factory_id_as_base(row) ==
    Tool(row.tool_id, Some(row.tool_version), Some(row.tool_id),
         Some(row.update_time), row.run_count, row.min_runtime, row.median_runtime,
         row.mean_runtime, row.pct95_runtime, row.pct99_runtime, row.max_runtime,
         row.active)

(* tool_factory: the Tool of a row of SELECT * FROM runtimes *)
tool_factory(row) ==
    Tool(row.tool_id, Some(row.tool_version), Some(row.base_tool_id),
         Some(row.update_time), row.run_count, row.min_runtime, row.median_runtime,
         row.mean_runtime, row.pct95_runtime, row.pct99_runtime, row.max_runtime,
         row.active)

tool_factory_ok(row) == ToolOk(row.tool_id, Some(row.tool_version), Some(row.base_tool_id))

-----------------------------------------------------------------------------
(* The cache: table runtimes and the three statements commit_tool runs *)

(* INSERT_TOOL_SQL with :tool_id bound to column base_tool_id as well *)
INSERT_TOOL_SQL_id_as_base(rows, v, time) ==
    Append(rows, [tool_id |-> v.tool_id, base_tool_id |-> v.tool_id,
                  tool_version |-> v.tool_version, update_time |-> time,
                  run_count |-> v.run_count, min_runtime |-> v.min_runtime,
                  median_runtime |-> v.median_runtime, mean_runtime |-> v.mean_runtime,
                  pct95_runtime |-> v.pct95_runtime, pct99_runtime |-> v.pct99_runtime,
                  max_runtime |-> v.max_runtime, active |-> TRUE])

(* INSERT_TOOL_SQL: update_time and active take their column defaults *)
INSERT_TOOL_SQL(rows, v, time) ==
    Append(rows, [tool_id |-> v.tool_id, base_tool_id |-> v.base_tool_id,
                  tool_version |-> v.tool_version, update_time |-> time,
                  run_count |-> v.run_count, min_runtime |-> v.min_runtime,
                  median_runtime |-> v.median_runtime, mean_runtime |-> v.mean_runtime,
                  pct95_runtime |-> v.pct95_runtime, pct99_runtime |-> v.pct99_runtime,
                  max_runtime |-> v.max_runtime, active |-> TRUE])

(* WHERE tool_id = :tool_id AND tool_version = :tool_version *)
Matches(row, v) == row.tool_id = v.tool_id /\ row.tool_version = v.tool_version

(* UPDATE_TOOL_SQL with the six runtime columns left out of its SET list *)
UPDATE_TOOL_SQL_count_only(rows, v, time) ==
    [i \in DOMAIN rows |->
        IF Matches(rows[i], v)
        THEN [rows[i] EXCEPT !.tool_id = v.tool_id, !.update_time = time,
                             !.run_count = v.run_count]
        ELSE rows[i]]

(* UPDATE_TOOL_SQL *)
UPDATE_TOOL_SQL(rows, v, time) ==
    [i \in DOMAIN rows |->
        IF Matches(rows[i], v)
        THEN [rows[i] EXCEPT !.tool_id = v.tool_id, !.update_time = time,
                             !.run_count = v.run_count, !.min_runtime = v.min_runtime,
                             !.median_runtime = v.median_runtime,
                             !.mean_runtime = v.mean_runtime,
                             !.pct95_runtime = v.pct95_runtime,
                             !.pct99_runtime = v.pct99_runtime,
                             !.max_runtime = v.max_runtime]
        ELSE rows[i]]

(* DEACTIVATE_TOOL_SQL that also resets run_count to the "unknown" sentinel *)
DEACTIVATE_TOOL_SQL_reset(rows, v, time) ==
    [i \in DOMAIN rows |->
        IF Matches(rows[i], v)
        THEN [rows[i] EXCEPT !.update_time = time, !.active = FALSE, !.run_count = -1]
        ELSE rows[i]]

(* DEACTIVATE_TOOL_SQL *)
DEACTIVATE_TOOL_SQL(rows, v, time) ==
    [i \in DOMAIN rows |->
        IF Matches(rows[i], v)
        THEN [rows[i] EXCEPT !.update_time = time, !.active = FALSE]
        ELSE rows[i]]

(* App.commit_tool: the table after cur.execute(sql, tool.upsert_values()); con.commit() *)
commit_tool(rows, t, sql, time) ==
    CASE sql = "INSERT" -> INSERT_TOOL_SQL(rows, upsert_values(t), time)
      [] sql = "UPDATE" -> UPDATE_TOOL_SQL(rows, upsert_values(t), time)
      [] sql = "DEACTIVATE" -> DEACTIVATE_TOOL_SQL(rows, upsert_values(t), time)

(* tools[tool.key] = tool on a dict kept as the sequence of its values *)
dict_put(d, t) ==
    IF \E j \in 1..Len(d) : key(d[j]) = key(t)
    THEN [j \in 1..Len(d) |-> IF key(d[j]) = key(t) THEN t ELSE d[j]]
    ELSE Append(d, t)

RECURSIVE dict_of(_)
(* the dict a loop of tools[tool.key] = tool builds from a sequence of Tools *)
dict_of(ts) ==
    IF ts = <<>> THEN <<>>
    ELSE dict_put(dict_of(SubSeq(ts, 1, Len(ts) - 1)), ts[Len(ts)])

(* set(d.keys()) *)
keys(d) == {key(d[j]) : j \in 1..Len(d)}

(* d[k] *)
lookup(d, k) == d[CHOOSE j \in 1..Len(d) : key(d[j]) = k]

(* SQLite's datetime(time, '-<older_than>'): the modifiers it knows are NNN days,
   hours, minutes, seconds, months and years (with or without the s); for any other
   it answers NULL.  The clock counts weeks. *)
datetime(time, m) ==
    IF m.unit \in {"day", "days"} THEN Some(time - (m.n \div 7)) ELSE None

(* the comparison of get_db_tools with <= for < *)
older_or_equal(r, time) ==
    /\ datetime(time, older_than) # None
    /\ r.update_time <= Val(datetime(time, older_than))

(* update_time < datetime('now', ?) as WHERE reads it: NULL counts as false *)
older(r, time) ==
    /\ datetime(time, older_than) # None
    /\ r.update_time < Val(datetime(time, older_than))

(* the SELECT of get_db_tools without its WHERE active *)
select_rows_any(rows, for_update, time) ==
    LET Sel(r) == for_update => older(r, time)
    IN SelectSeq(rows, Sel)

(* SELECT * FROM runtimes WHERE active [AND update_time < datetime('now', '-<older_than>')] *)
select_rows(rows, for_update, time) ==
    LET Sel(r) == r.active /\ (for_update => older(r, time))
    IN SelectSeq(rows, Sel)

(* App.get_db_tools raises: tool_factory fails on a selected row *)
get_db_tools_raises(rows, for_update, time) ==
    LET sel == select_rows(rows, for_update, time)
    IN \E i \in 1..Len(sel) : ~tool_factory_ok(sel[i])

(* App.get_db_tools *)
get_db_tools(rows, for_update, time) ==
    LET sel == select_rows(rows, for_update, time)
    IN dict_of([i \in 1..Len(sel) |-> tool_factory(sel[i])])

(* App.get_server_tools raises: Tool(tool_elem["id"], tool_elem["version"]) fails *)
get_server_tools_raises(cat) ==
    \E i \in 1..Len(cat) : ~ToolOk(cat[i].id, Some(cat[i].version), None)

(* App.get_server_tools, for a response it accepts *)
get_server_tools(cat) ==
    dict_of([i \in 1..Len(cat) |-> NewTool(cat[i].id, Some(cat[i].version))])

(* App.run_count: COUNT_SQL for (tool.id, tool.version) *)
run_count(h, t) == h[<<t.id, t.version>>].run_count

(* App.summary_stats: SUMMARY_SQL for (tool.id, tool.version) *)
summary_stats(h, t) == h[<<t.id, t.version>>].summary

(* App.upsert_tool raises (update_stats on a null summary), so nothing is committed *)
upsert_tool_raises(h, t) == update_stats_raises(summary_stats(h, t))

(* App.upsert_tool without line 267: count is never stored in the Tool *)
counted_unset(h, t) == t

(* App.upsert_tool, line 267: the Tool once tool.run_count = count has run *)
counted(h, t) == [t EXCEPT !.run_count = run_count(h, t)]

(* App.upsert_tool: the Tool, updated in place, that it hands to commit_tool *)
upsert_tool(h, t) == update_stats(counted(h, t), summary_stats(h, t))

-----------------------------------------------------------------------------
(* Inputs: the catalog entries, the run histories and the tables a run may find *)

ToolA1 == [id |-> <<"a", "/", "1">>, version |-> <<"1">>]

ToolA == [id |-> <<"a">>, version |-> <<"1">>]

ToolB2 == [id |-> <<"b", "/", "2">>, version |-> <<"2">>]

(* an entry whose id does not end in its version *)
ToolBad == [id |-> <<"b", "/", "2">>, version |-> <<"1">>]

Entries == {ToolA1, ToolA, ToolB2, ToolBad}

GoodEntries == {e \in Entries : ToolOk(e.id, Some(e.version), None)}

(* the tools an earlier run may have left a row for *)
RowEntries == {ToolA1, ToolB2}

RECURSIVE SeqsUpTo(_, _)
(* the sequences of at most n elements of S *)
SeqsUpTo(S, n) ==
    IF n = 0 THEN {<<>>}
    ELSE LET shorter == SeqsUpTo(S, n - 1)
         IN shorter \cup {Append(q, x) : q \in {r \in shorter : Len(r) = n - 1},
                                         x \in S}

NoRepeat(q) == \A i, j \in 1..Len(q) : i # j => q[i] # q[j]

Catalogs == {q \in SeqsUpTo(Entries, MaxCatalog) : NoRepeat(q)}

(* no successful run: count 0 and every aggregate null *)
NoRuns ==
    [run_count |-> 0,
     summary |-> [min |-> None, median |-> None, mean |-> None,
                  perc_95 |-> None, perc_99 |-> None, max |-> None]]

(* aggregates in tenths of a second; the percentiles are cast to bigint by the query *)
FewRuns ==
    [run_count |-> 4,
     summary |-> [min |-> Some(15), median |-> Some(120), mean |-> Some(157),
                  perc_95 |-> Some(300), perc_99 |-> Some(410), max |-> Some(519)]]

Profiles == {NoRuns, FewRuns}

QueryKeys == {<<e.id, e.version>> : e \in GoodEntries}

Histories == [QueryKeys -> Profiles]

(* --older-than: left at its default, "1 week", or given as "7 days" *)
OlderThan == {[n |-> 1, unit |-> "week"], [n |-> 7, unit |-> "days"]}

(* a row an earlier run left for entry e: inserted from an older history *)
OldRow(e, time, active) ==
    [tool_id |-> e.id, base_tool_id |-> set_base_id(e.id, e.version, None),
     tool_version |-> e.version, update_time |-> time, run_count |-> 1,
     min_runtime |-> Some(3), median_runtime |-> Some(4), mean_runtime |-> Some(5),
     pct95_runtime |-> Some(6), pct99_runtime |-> Some(7), max_runtime |-> Some(8),
     active |-> active]

InitNow == Window + 1

(* when and how an earlier run left a row: active and written two weeks ago or
   just now, or deactivated two weeks ago *)
RowStates == {<<0, TRUE>>, <<InitNow, TRUE>>, <<0, FALSE>>}

(* tables with at most one row per (tool_id, tool_version), in any rowid order *)
InitTables ==
    UNION {{[i \in 1..Len(q) |-> OldRow(q[i], f[i][1], f[i][2])] :
              f \in [1..Len(q) -> RowStates]} :
           q \in {r \in SeqsUpTo(RowEntries, Cardinality(RowEntries)) : NoRepeat(r)}}

-----------------------------------------------------------------------------
(* The run: main() -> App.handle_tool_changes, one step per committed statement *)

Between == {"idle", "done", "failed"}

Init ==
    /\ runtimes \in InitTables
    /\ catalog \in Catalogs
    /\ history \in Histories
    /\ older_than \in OlderThan
    /\ tool_id = None
    /\ tool_args = None
    /\ now = InitNow
    /\ pc = "idle"
    /\ err = "none"
    /\ server_tools = <<>>
    /\ db_tools = <<>>
    /\ to_insert = {}
    /\ to_deactivate = {}
    /\ to_update = <<>>
    /\ tool = None
    /\ log = <<>>
    /\ runtimes0 = runtimes
    /\ second = FALSE

(* the pass ends with an exception: nothing is rolled back *)
Raise(e) ==
    /\ pc' = "failed"
    /\ err' = e
    /\ UNCHANGED <<runtimes, log, to_insert, to_deactivate, to_update>>

(* lines 274-277: both reads and the two differences *)
htc_start ==
    /\ pc \in Between
    /\ runtimes0' = runtimes
    /\ second' = (pc = "done")
    /\ tool' = None
    /\ log' = <<>>
    /\ to_update' = <<>>
    /\ err' = IF get_server_tools_raises(catalog) \/ get_db_tools_raises(runtimes, FALSE, now)
              THEN "AssertionError" ELSE "none"
    /\ IF get_server_tools_raises(catalog)
       THEN /\ pc' = "failed"
            /\ server_tools' = <<>>
            /\ db_tools' = <<>>
            /\ to_insert' = {}
            /\ to_deactivate' = {}
       ELSE IF get_db_tools_raises(runtimes, FALSE, now)
       THEN /\ pc' = "failed"
            /\ server_tools' = get_server_tools(catalog)
            /\ db_tools' = <<>>
            /\ to_insert' = {}
            /\ to_deactivate' = {}
       ELSE /\ server_tools' = get_server_tools(catalog)
            /\ db_tools' = get_db_tools(runtimes, FALSE, now)
            /\ to_insert' = keys(server_tools') \ keys(db_tools')
            /\ to_deactivate' = keys(db_tools') \ keys(server_tools')
            /\ pc' = IF to_insert' # {} THEN "insert" ELSE "deactivate"
    /\ tool_id' = None
    /\ UNCHANGED <<runtimes, catalog, history, older_than, tool_args, now>>

(* line 223: requests.get or response.json() raises *)
htc_catalog_unavailable ==
    /\ pc \in Between
    /\ runtimes0' = runtimes
    /\ second' = (pc = "done")
    /\ tool' = None
    /\ log' = <<>>
    /\ to_update' = <<>>
    /\ server_tools' = <<>>
    /\ db_tools' = <<>>
    /\ to_insert' = {}
    /\ to_deactivate' = {}
    /\ pc' = "failed"
    /\ err' = "CatalogUnavailable"
    /\ tool_id' = None
    /\ UNCHANGED <<runtimes, catalog, history, older_than, tool_args, now>>

(* lines 278-279: one iteration of the loop over server_tool_keys - db_tool_keys *)
htc_insert ==
    /\ pc = "insert"
    /\ \E k \in to_insert :
        LET t == lookup(server_tools, k)
        IN IF upsert_tool_raises(history, t)
           THEN /\ Raise("TypeError")
                /\ server_tools' = dict_put(server_tools, counted(history, t))
           ELSE /\ runtimes' = commit_tool(runtimes, upsert_tool(history, t), "INSERT", now)
                /\ server_tools' = dict_put(server_tools, upsert_tool(history, t))
                /\ log' = Append(log, [sql |-> "INSERT", key |-> k])
                /\ to_insert' = to_insert \ {k}
                /\ pc' = IF to_insert' # {} THEN "insert" ELSE "deactivate"
                /\ UNCHANGED <<err, to_deactivate, to_update>>
    /\ UNCHANGED <<catalog, history, older_than, tool_id, tool_args, now, db_tools, tool, runtimes0, second>>

(* lines 280-282: one iteration of the loop over db_tool_keys - server_tool_keys;
   the body reads the local "tool", which only line 283 binds *)
htc_deactivate ==
    /\ pc = "deactivate"
    /\ \E k \in to_deactivate :
        IF tool = None
        THEN Raise("UnboundLocalError")
        ELSE /\ runtimes' = commit_tool(runtimes, Val(tool), "DEACTIVATE", now)
             /\ log' = Append(log, [sql |-> "DEACTIVATE", key |-> key(Val(tool))])
             /\ to_deactivate' = to_deactivate \ {k}
             /\ UNCHANGED <<pc, err, to_insert, to_update>>
    /\ UNCHANGED <<catalog, history, older_than, tool_id, tool_args, now, server_tools, db_tools, tool, runtimes0, second>>

(* line 283: get_db_tools(for_update=True), once the loop above has nothing left *)
htc_refresh ==
    /\ pc = "deactivate"
    /\ to_deactivate = {}
    /\ IF get_db_tools_raises(runtimes, TRUE, now)
       THEN Raise("AssertionError")
       ELSE /\ to_update' = get_db_tools(runtimes, TRUE, now)
            /\ pc' = IF to_update' # <<>> THEN "update" ELSE "done"
            /\ UNCHANGED <<runtimes, err, log, to_insert, to_deactivate>>
    /\ UNCHANGED <<catalog, history, older_than, tool_id, tool_args, now, server_tools, db_tools, tool, runtimes0, second>>

(* lines 283-284: one iteration of the loop over the stale tools *)
htc_update ==
    /\ pc = "update"
    /\ to_update # <<>>
    /\ IF upsert_tool_raises(history, Head(to_update))
       THEN /\ Raise("TypeError")
            /\ tool' = Some(counted(history, Head(to_update)))
       ELSE /\ runtimes' = commit_tool(runtimes, upsert_tool(history, Head(to_update)),
                                       "UPDATE", now)
            /\ tool' = Some(upsert_tool(history, Head(to_update)))
            /\ log' = Append(log, [sql |-> "UPDATE", key |-> key(Head(to_update))])
            /\ to_update' = Tail(to_update)
            /\ pc' = IF to_update' # <<>> THEN "update" ELSE "done"
            /\ UNCHANGED <<err, to_insert, to_deactivate>>
    /\ UNCHANGED <<catalog, history, older_than, tool_id, tool_args, now, server_tools, db_tools, runtimes0, second>>

(* lines 249, 255: a query of upsert_tool raises before anything is committed *)
query_failure ==
    /\ pc \in {"insert", "update"}
    /\ Raise("QueryFailure")
    /\ tool' = IF pc = "update" THEN Some(Head(to_update)) ELSE tool
    /\ UNCHANGED <<catalog, history, older_than, tool_id, tool_args, now, server_tools, db_tools, runtimes0, second>>

(* the process is killed between two statements *)
kill ==
    /\ pc \in {"insert", "deactivate", "update"}
    /\ Raise("killed")
    /\ UNCHANGED <<catalog, history, older_than, tool_id, tool_args, now, server_tools, db_tools, tool, runtimes0, second>>

(* the ids --tool-id may name: one with a "/" and one without *)
ToolIds == {ToolA1.id, ToolA.id}

(* main, lines 292-295: the run with --tool-id.  rsplit("/", 1) of an id without "/"
   has one element and the unpacking raises; otherwise Tool(args.tool_id, version)
   is built and app.new_tool is looked up, which class App does not define *)
main_tool_id ==
    /\ pc \in Between
    /\ \E id \in ToolIds :
        /\ tool_id' = Some(id)
        /\ err' = IF ~HasSep(id) THEN "ValueError"
                  ELSE IF ~ToolOk(id, Some(RSplit(id)[2]), None) THEN "AssertionError"
                  ELSE "AttributeError"
    /\ tool' = None
    /\ pc' = "failed"
    /\ runtimes0' = runtimes
    /\ second' = FALSE
    /\ log' = <<>>
    /\ to_update' = <<>>
    /\ server_tools' = <<>>
    /\ db_tools' = <<>>
    /\ to_insert' = {}
    /\ to_deactivate' = {}
    /\ UNCHANGED <<runtimes, catalog, history, older_than, tool_args, now>>

-----------------------------------------------------------------------------
(* The clock.  The catalog and the run history are inputs of the behaviour:
   every run of it sees the same ones. *)

(* a week passes *)
tick ==
    /\ now < MaxTime
    /\ now' = now + 1
    /\ UNCHANGED <<runtimes, catalog, history, older_than, tool_id, tool_args, pc, err, server_tools, db_tools,
                   to_insert, to_deactivate, to_update, tool, log, runtimes0, second>>

Next ==
    \/ htc_start
    \/ htc_catalog_unavailable
    \/ main_tool_id
    \/ htc_insert
    \/ htc_deactivate
    \/ htc_refresh
    \/ htc_update
    \/ query_failure
    \/ kill
    \/ tick

Spec == Init /\ [][Next]_vars

-----------------------------------------------------------------------------
(* Runs repeated for ever (a scheduler), against sources that answer every query
   with data: the catalog is well formed, every tool has successful runs, no query
   fails and the process is not killed. *)

LiveInit ==
    /\ Init
    /\ ~get_server_tools_raises(catalog)
    /\ \A q \in QueryKeys : history[q] = FewRuns

Pass ==
    \/ htc_start
    \/ htc_insert
    \/ htc_deactivate
    \/ htc_refresh
    \/ htc_update

LiveNext ==
    \/ Pass
    \/ tick

LiveSpec == LiveInit /\ [][LiveNext]_vars /\ WF_vars(Pass)

-----------------------------------------------------------------------------
(* The three statements on their own: commit_tool called with any tool the
   catalog or the cache can hand it, in any order. *)

values(d) == {d[j] : j \in 1..Len(d)}

OpsFrame == UNCHANGED <<catalog, history, older_than, tool_id, tool_args, now, pc, err, server_tools, db_tools,
                        to_insert, to_deactivate, to_update, second>>

(* upsert_tool(tool, INSERT_TOOL_SQL) for a catalog tool *)
ops_insert ==
    /\ Len(log) < MaxOps
    /\ \E e \in GoodEntries :
        LET t == NewTool(e.id, Some(e.version))
        IN /\ ~upsert_tool_raises(history, t)
           /\ runtimes' = commit_tool(runtimes, upsert_tool(history, t), "INSERT", now)
           /\ log' = Append(log, [sql |-> "INSERT", key |-> key(t)])
           /\ tool' = Some(t)
    /\ runtimes0' = runtimes
    /\ OpsFrame

(* upsert_tool(tool, UPDATE_TOOL_SQL) for a tool read from the cache *)
ops_update ==
    /\ Len(log) < MaxOps
    /\ \E t \in values(get_db_tools(runtimes, FALSE, now)) :
        /\ ~upsert_tool_raises(history, t)
        /\ runtimes' = commit_tool(runtimes, upsert_tool(history, t), "UPDATE", now)
        /\ log' = Append(log, [sql |-> "UPDATE", key |-> key(t)])
        /\ tool' = Some(t)
    /\ runtimes0' = runtimes
    /\ OpsFrame

(* commit_tool(tool, DEACTIVATE_TOOL_SQL) for a tool read from the cache *)
ops_deactivate ==
    /\ Len(log) < MaxOps
    /\ \E t \in values(get_db_tools(runtimes, FALSE, now)) :
        /\ runtimes' = commit_tool(runtimes, t, "DEACTIVATE", now)
        /\ log' = Append(log, [sql |-> "DEACTIVATE", key |-> key(t)])
        /\ tool' = Some(t)
    /\ runtimes0' = runtimes
    /\ OpsFrame

OpsNext ==
    \/ ops_insert
    \/ ops_update
    \/ ops_deactivate
    \/ tick

(* the catalog and the staleness window play no part here *)
OpsInit ==
    /\ Init
    /\ catalog = <<>>
    /\ older_than = [n |-> 1, unit |-> "week"]

OpsSpec == OpsInit /\ [][OpsNext]_vars

-----------------------------------------------------------------------------
(* class Tool on its own: Tool(id, version, base_id) called with any short strings,
   and the way of a catalog Tool through the cache: INSERT_TOOL_SQL, then the SELECT
   of get_db_tools and tool_factory. *)

MaxId == 3

Alphabet == {"a", "/", "1"}

Ids == SeqsUpTo(Alphabet, MaxId)

Versions == {None} \cup {Some(v) : v \in SeqsUpTo(Alphabet, 1)}

Bases == {None} \cup {Some(b) : b \in SeqsUpTo(Alphabet, MaxId - 1)}

ToolFrame == UNCHANGED <<catalog, history, older_than, tool_id, now, server_tools,
                         to_insert, to_deactivate, to_update, log, runtimes0, second>>

(* Tool.__init__, lines 129-143 *)
new_Tool ==
    /\ pc = "idle"
    /\ \E id \in Ids, version \in Versions, base_id \in Bases :
        /\ tool_args' = Some([id |-> id, version |-> version, base_id |-> base_id])
        /\ IF ToolOk(id, version, base_id)
           THEN /\ tool' = Some(Tool(id, version, base_id, None, -1,
                                     None, None, None, None, None, None, TRUE))
                /\ pc' = "built"
                /\ err' = "none"
           ELSE /\ tool' = None
                /\ pc' = "failed"
                /\ err' = "AssertionError"
    /\ UNCHANGED <<runtimes, db_tools>>
    /\ ToolFrame

(* upsert_tool(tool, INSERT_TOOL_SQL) for a Tool built as get_server_tools builds
   it, against a history that holds runs of it *)
store_Tool ==
    /\ pc = "built"
    /\ Val(tool_args).base_id = None
    /\ LET t == Val(tool)
           h == [q \in {<<t.id, t.version>>} |-> FewRuns]
       IN /\ runtimes' = commit_tool(runtimes, upsert_tool(h, t), "INSERT", now)
          /\ tool' = Some(upsert_tool(h, t))
    /\ pc' = "stored"
    /\ UNCHANGED <<tool_args, err, db_tools>>
    /\ ToolFrame

(* get_db_tools(): the row comes back through tool_factory *)
load_Tool ==
    /\ pc = "stored"
    /\ IF get_db_tools_raises(runtimes, FALSE, now)
       THEN /\ pc' = "failed"
            /\ err' = "AssertionError"
            /\ UNCHANGED db_tools
       ELSE /\ db_tools' = get_db_tools(runtimes, FALSE, now)
            /\ pc' = "loaded"
            /\ UNCHANGED err
    /\ UNCHANGED <<runtimes, tool_args, tool>>
    /\ ToolFrame

ToolNext ==
    \/ new_Tool
    \/ store_Tool
    \/ load_Tool

(* an empty cache *)
ToolInit ==
    /\ Init
    /\ runtimes = <<>>
    /\ catalog = <<>>
    /\ older_than = [n |-> 1, unit |-> "week"]
    /\ \A q \in QueryKeys : history[q] = FewRuns

ToolSpec == ToolInit /\ [][ToolNext]_vars

-----------------------------------------------------------------------------
(* Notions the properties share *)

(* the key get_db_tools files a row under *)
row_key(r) == key(tool_factory(r))

(* a run has ended, by returning or by an exception *)
PassOver == pc \in {"done", "failed"}

(* ends that the sources or the operator cause: the catalog cannot be fetched or
   parsed, an identity is malformed, a query fails, the process is killed *)
Outside == {"CatalogUnavailable", "AssertionError", "QueryFailure", "killed"}

(* the keys this pass has committed statement sql for, and how often for key k *)
Committed(sql) == {log[n].key : n \in {m \in 1..Len(log) : log[m].sql = sql}}

Times(sql, k) == Cardinality({n \in 1..Len(log) : log[n].sql = sql /\ log[n].key = k})

(* the rows this pass has appended *)
NewRows == {i \in 1..Len(runtimes) : i > Len(runtimes0)}

(* the six runtime columns a row gets from the summary of tool t: the aggregates, truncated *)
Truncated(x) == IF x = None THEN None ELSE Some(int(x))

FromAggregator(r, t) ==
    /\ r.run_count = run_count(history, t)
    /\ r.min_runtime = Truncated(summary_stats(history, t).min)
    /\ r.median_runtime = Truncated(summary_stats(history, t).median)
    /\ r.mean_runtime = Truncated(summary_stats(history, t).mean)
    /\ r.pct95_runtime = Truncated(summary_stats(history, t).perc_95)
    /\ r.pct99_runtime = Truncated(summary_stats(history, t).perc_99)
    /\ r.max_runtime = Truncated(summary_stats(history, t).max)

-----------------------------------------------------------------------------
(* C1: a pass that no outside failure (and no tool without runs) ends has, when it is
   over, deactivated every key that was active in the cache and is absent from the
   catalog exactly once, so that no row of that key is active any more, and has
   deactivated nothing else. *)
C1_DeactivatesRemoved ==
    (PassOver /\ err \notin Outside \cup {"TypeError"}) =>
        /\ \A k \in keys(db_tools) \ keys(server_tools) :
            /\ Times("DEACTIVATE", k) = 1
            /\ \A i \in 1..Len(runtimes0) :
                (runtimes0[i].active /\ row_key(runtimes0[i]) = k) => ~runtimes[i].active
        /\ Committed("DEACTIVATE") \subseteq keys(db_tools) \ keys(server_tools)

(* C2: with C the catalog keys and D the active cache keys read at the start, a pass
   that no outside failure (and no tool without runs) ends has inserted exactly C - D
   and deactivated exactly D - C; the two are disjoint and with the keys in both they
   cover C and D. *)
C2_DiffSets ==
    LET C == keys(server_tools)
        D == keys(db_tools)
    IN (PassOver /\ err \notin Outside \cup {"TypeError"}) =>
        /\ Committed("INSERT") = C \ D
        /\ Committed("DEACTIVATE") = D \ C
        /\ Committed("INSERT") \cap Committed("DEACTIVATE") = {}
        /\ Committed("INSERT") \cup Committed("DEACTIVATE") \cup (C \cap D) = C \cup D

(* C3: a pass that no outside failure ends has, once its insertions are over, appended
   for every catalog key without an active cache record exactly one row: the tool's id
   and version, run_count and the six runtimes from the aggregator, active. *)
C3_InsertsEachNewTool ==
    (pc \in {"deactivate", "update", "done", "failed"} /\ err \notin Outside) =>
        \A k \in keys(server_tools) \ keys(db_tools) :
            /\ Times("INSERT", k) = 1
            /\ Cardinality({i \in NewRows : row_key(runtimes[i]) = k}) = 1
            /\ \A i \in NewRows :
                row_key(runtimes[i]) = k =>
                    /\ runtimes[i].tool_id = lookup(server_tools, k).id
                    /\ runtimes[i].tool_version = lookup(server_tools, k).version
                    /\ FromAggregator(runtimes[i], lookup(server_tools, k))
                    /\ runtimes[i].active

(* C4: the table never holds two rows with the same (tool_id, tool_version). *)
C4_OneRowPerTool ==
    \A i, j \in 1..Len(runtimes) :
        (runtimes[i].tool_id = runtimes[j].tool_id
            /\ runtimes[i].tool_version = runtimes[j].tool_version) => i = j

(* C8: a pass never ends because a tool it inserts or refreshes has no successful run
   (int(None) in update_stats). *)
C8_ZeroRunsDoNotCrash == ~(pc = "failed" /\ err = "TypeError")

(* the keys of the active rows *)
ActiveKeys == {row_key(runtimes[i]) : i \in {n \in 1..Len(runtimes) : runtimes[n].active}}

(* C5: under LiveSpec a pass eventually completes, and from then on the keys of the
   active rows are the keys of the catalog. *)
C5_Converges == <>(pc = "done" /\ [](ActiveKeys = keys(get_server_tools(catalog))))

(* no row the pass found is older than the staleness window *)
NoStale0 ==
    \A i \in 1..Len(runtimes0) :
        runtimes0[i].active => ~(runtimes0[i].update_time < now - Window)

(* C6: a pass started right after a completed one, with no record older than the
   staleness window, commits nothing and leaves the table as it found it. *)
C6_SecondPassIdle == (second /\ NoStale0) => (log = <<>> /\ runtimes = runtimes0)

(* witness of C6: such a second pass has returned, after a first one that wrote rows *)
C6_Witness ==
    /\ second
    /\ NoStale0
    /\ pc = "done"
    /\ \E i \in 1..Len(runtimes) :
        /\ runtimes[i].active
        /\ runtimes[i].update_time >= InitNow
        /\ runtimes[i].run_count = FewRuns.run_count

(* what one whole statement leaves of a row *)
CompleteInsert(r) ==
    \E j \in 1..Len(server_tools) :
        /\ r.tool_id = server_tools[j].id
        /\ r.base_tool_id = server_tools[j].base_id
        /\ r.tool_version = server_tools[j].version
        /\ FromAggregator(r, server_tools[j])
        /\ r.active
        /\ r.update_time \in InitNow..now

CompleteUpdate(r, r0) ==
    /\ r.tool_id = r0.tool_id
    /\ r.base_tool_id = r0.base_tool_id
    /\ r.tool_version = r0.tool_version
    /\ r.active = r0.active
    /\ FromAggregator(r, tool_factory(r0))
    /\ r.update_time \in InitNow..now

CompleteDeactivate(r, r0) ==
    /\ r = [r0 EXCEPT !.update_time = r.update_time, !.active = FALSE]
    /\ r.update_time \in InitNow..now

(* C7: at every step of a pass, and after it has ended in any way, every statement
   committed so far is in the table, and every row is as the pass found it or as one
   whole INSERT, UPDATE or DEACTIVATE left it. *)
C7_NoPartialWrite ==
    /\ Len(runtimes) - Len(runtimes0) =
          Cardinality({n \in 1..Len(log) : log[n].sql = "INSERT"})
    /\ \A n \in 1..Len(log) :
        \E i \in 1..Len(runtimes) :
            /\ row_key(runtimes[i]) = log[n].key
            /\ runtimes[i].update_time \in InitNow..now
            /\ FromAggregator(runtimes[i], tool_factory(runtimes[i]))
    /\ \A i \in 1..Len(runtimes0) :
        \/ runtimes[i] = runtimes0[i]
        \/ CompleteUpdate(runtimes[i], runtimes0[i])
        \/ CompleteDeactivate(runtimes[i], runtimes0[i])
    /\ \A i \in NewRows : CompleteInsert(runtimes[i])

(* witness of C7: a pass that a failed query or a kill ended after it had committed
   an insert and an update *)
C7_Witness ==
    /\ pc = "failed"
    /\ err \in {"QueryFailure", "killed"}
    /\ NewRows # {}
    /\ \E i \in 1..Len(runtimes0) : runtimes[i] # runtimes0[i]

(* C9 (under OpsSpec): a DEACTIVATE leaves every row as it was or changes only its
   active flag, to false, and its update_time: run_count and the six runtimes, and the
   number of rows, are as before the statement. *)
C9_DeactivateKeepsStats ==
    (log # <<>> /\ log[Len(log)].sql = "DEACTIVATE") =>
        /\ Len(runtimes) = Len(runtimes0)
        /\ \A i \in 1..Len(runtimes0) :
            \/ runtimes[i] = runtimes0[i]
            \/ runtimes[i] = [runtimes0[i] EXCEPT !.active = FALSE,
                                                  !.update_time = runtimes[i].update_time]

(* witness of C9: a DEACTIVATE has turned off a row that an UPDATE had written
   before, at a later time than that UPDATE *)
C9_Witness ==
    /\ Len(log) = 2
    /\ log[1].sql = "UPDATE"
    /\ log[2].sql = "DEACTIVATE"
    /\ \E i \in 1..Len(runtimes0) :
        /\ runtimes0[i].active
        /\ ~runtimes[i].active
        /\ runtimes[i].update_time > runtimes0[i].update_time
        /\ runtimes[i].run_count = FewRuns.run_count

(* every Tool of listing d is the Tool of an active row of rows *)
ListsActiveRows(d, rows) ==
    \A j \in 1..Len(d) :
        \E i \in 1..Len(rows) : rows[i].active /\ d[j] = tool_factory(rows[i])

(* C10: in every step, a row that is inactive stays in the table, at its place, with
   its tool_id and tool_version, and stays inactive; and what a step reads with
   get_db_tools, with or without for_update, are Tools of active rows only. *)
C10_InactiveStays ==
    [][/\ \A i \in 1..Len(runtimes) :
            ~runtimes[i].active =>
                /\ i <= Len(runtimes')
                /\ ~runtimes'[i].active
                /\ runtimes'[i].tool_id = runtimes[i].tool_id
                /\ runtimes'[i].tool_version = runtimes[i].tool_version
       /\ db_tools' # db_tools => ListsActiveRows(db_tools', runtimes)
       /\ to_update' # to_update => ListsActiveRows(to_update', runtimes)
       /\ \A j \in 1..Len(db_tools') : db_tools'[j].active
       /\ \A j \in 1..Len(to_update') : to_update'[j].active]_vars

(* witness of C10: two passes have returned, the first one inserted a row for the key
   of an inactive row and the second refreshed that new row; the inactive row is
   still there *)
C10_Witness ==
    /\ pc = "done"
    /\ second
    /\ \E n \in 1..Len(log) : log[n].sql = "UPDATE"
    /\ \E i, j \in 1..Len(runtimes) :
        /\ i < j
        /\ ~runtimes[i].active
        /\ runtimes[j].active
        /\ row_key(runtimes[i]) = row_key(runtimes[j])

-----------------------------------------------------------------------------
(* the Tools of the active rows whose update_time is strictly earlier than time
   minus the staleness window *)
StaleActive(rows, time) ==
    {tool_factory(rows[i]) :
        i \in {n \in 1..Len(rows) : rows[n].active /\ rows[n].update_time < time - Window}}

(* C11: whenever a pass reads the stale listing (get_db_tools(for_update=True)), what
   it gets are exactly the Tools of the active rows whose update_time is strictly
   earlier than now minus the staleness window: a row two windows old is listed, a
   row written now is not, and no inactive row is. *)
C11_StaleListing ==
    [][(pc = "deactivate" /\ pc' \in {"update", "done"}) =>
          values(to_update') = StaleActive(runtimes, now)]_vars

-----------------------------------------------------------------------------
(* the catalog holds the entry whose id does not end in its version *)
Malformed(cat) == \E i \in 1..Len(cat) : cat[i] = ToolBad

(* C12: a pass (a run without --tool-id) whose catalog cannot be fetched or parsed,
   or holds a malformed entry, is over with an error in its first step: it has
   committed nothing, and the table is as the pass found it. *)
C12_CatalogFailureWritesNothing ==
    /\ (pc # "idle" /\ tool_id = None /\ Malformed(catalog)) =>
          /\ pc = "failed"
          /\ err \in {"AssertionError", "CatalogUnavailable"}
          /\ log = <<>>
          /\ runtimes = runtimes0
    /\ err = "CatalogUnavailable" =>
          /\ pc = "failed"
          /\ log = <<>>
          /\ runtimes = runtimes0

(* witness of C12: a pass has failed on a malformed entry that follows, in the
   catalog, a tool the cache has no active row for, and the cache is not empty *)
C12_Witness ==
    /\ pc = "failed"
    /\ err = "AssertionError"
    /\ Len(catalog) = 2
    /\ catalog[1] \in GoodEntries
    /\ catalog[2] = ToolBad
    /\ key(NewTool(catalog[1].id, Some(catalog[1].version))) \notin ActiveKeys
    /\ runtimes # <<>>
    /\ runtimes = runtimes0

-----------------------------------------------------------------------------
(* C13: a run with --tool-id (an id that names its version) has, when it is over,
   made no catalog diff and committed one statement, the insert or the update of
   that tool's stats: the rows of every other tool are as the run found them and
   every row it appended is that tool's. *)
C13_ForcedRunWritesOneTool ==
    (tool_id # None /\ HasSep(Val(tool_id)) /\ PassOver) =>
        /\ server_tools = <<>>
        /\ db_tools = <<>>
        /\ Len(log) = 1
        /\ log[1].sql \in {"INSERT", "UPDATE"}
        /\ \A i \in 1..Len(runtimes0) :
            runtimes0[i].tool_id # Val(tool_id) => runtimes[i] = runtimes0[i]
        /\ \A i \in NewRows : runtimes[i].tool_id = Val(tool_id)

-----------------------------------------------------------------------------
(* p is a prefix of s *)
IsPrefix(p, s) == \E n \in 0..Len(s) : p = [i \in 1..n |-> s[i]]

(* what follows the last "/" of s is not v *)
SuffixDiffers(s, v) ==
    \E i \in 1..Len(s) :
        /\ s[i] = "/"
        /\ \A j \in (i + 1)..Len(s) : s[j] # "/"
        /\ v # [j \in 1..(Len(s) - i) |-> s[i + j]]

(* C14 (under ToolSpec): Tool(id, version, base_id) with a version that is not None
   fails in exactly two cases: base_id is given and is not a prefix of id, or base_id
   is not given, id holds a "/" and what follows its last "/" is not version. *)
C14_ToolConstruction ==
    (tool_args # None /\ Val(tool_args).version # None) =>
        LET a == Val(tool_args)
        IN (pc = "failed" /\ err = "AssertionError" /\ tool = None) <=>
              \/ a.base_id # None /\ ~IsPrefix(Val(a.base_id), a.id)
              \/ a.base_id = None /\ SuffixDiffers(a.id, Val(a.version))

(* witness of C14: a construction has failed whose base_id occurs in the id, not at
   its start, and whose version is what follows the "/" *)
C14_Witness ==
    /\ pc = "failed"
    /\ err = "AssertionError"
    /\ tool_args = Some([id |-> <<"1", "/", "a">>, version |-> Some(<<"a">>),
                         base_id |-> Some(<<"a">>)])

-----------------------------------------------------------------------------
(* C15 (under ToolSpec): the key of a Tool is its base_id, "/" and its version: the
   given base_id when one is given, else the id itself when the id holds a "/" (it
   ends in the version), else the id followed by "/" and the version.  A catalog
   Tool inserted and read back through tool_factory has the same id, version,
   base_id and key, so its key is not new to the next pass. *)
C15_KeyRoundTrip ==
    /\ tool # None =>
          LET a == Val(tool_args)
              t == Val(tool)
          IN /\ a.base_id # None => key(t) = Val(a.base_id) \o <<"/">> \o Val(a.version)
             /\ (a.base_id = None /\ HasSep(a.id)) => key(t) = a.id
             /\ (a.base_id = None /\ ~HasSep(a.id)) =>
                    key(t) = a.id \o <<"/">> \o Val(a.version)
    /\ pc = "stored" => ~get_db_tools_raises(runtimes, FALSE, now)
    /\ pc = "loaded" =>
          /\ Len(db_tools) = 1
          /\ db_tools[1].id = Val(tool).id
          /\ db_tools[1].version = Val(tool).version
          /\ db_tools[1].base_id = Val(tool).base_id
          /\ key(db_tools[1]) = key(Val(tool))
          /\ keys(get_server_tools(<<[id |-> Val(tool).id,
                                      version |-> Val(tool).version]>>))
                \ keys(db_tools) = {}

(* witness of C15: a Tool whose id ends in "/" and its version has come back from
   the cache *)
C15_Witness ==
    /\ pc = "loaded"
    /\ Val(tool_args).id = <<"a", "/", "1">>
    /\ runtimes[1].base_tool_id = <<"a">>
    /\ key(db_tools[1]) = <<"a", "/", "1">>

-----------------------------------------------------------------------------
(* row i was active and older than the staleness window when the pass started, at
   whatever time that was, and the catalog lists its tool *)
Stale0(i) ==
    /\ runtimes0[i].active
    /\ runtimes0[i].update_time < InitNow - Window
    /\ row_key(runtimes0[i]) \in keys(server_tools)

(* row i has been refreshed by the pass: its stats are the aggregator's and its
   update_time is later than it was *)
Refreshed(i) ==
    /\ runtimes[i].update_time > runtimes0[i].update_time
    /\ FromAggregator(runtimes[i], tool_factory(runtimes0[i]))

(* C16: a pass of handle_tool_changes with --older-than 7 days that is over, and
   that no outside failure (and no tool without runs) has ended, has refreshed
   every row of a catalog tool that was active and older than the staleness window
   when it started, whatever the catalog diff held. *)
C16_RefreshesStale ==
    (PassOver /\ tool_id = None /\ older_than.unit = "days"
        /\ err \notin Outside \cup {"TypeError"}) =>
        \A i \in 1..Len(runtimes0) : Stale0(i) => Refreshed(i)

-----------------------------------------------------------------------------
(* the keys this pass has written stats for *)
Written == Committed("INSERT") \cup Committed("UPDATE")

(* C17, as claimed: a pass commits at most one stats write, an insert or an update,
   for a key. *)
C17_OneStatsWrite ==
    \A k \in Written : Times("INSERT", k) + Times("UPDATE", k) <= 1

(* the statement the pass committed last is the update of the Tool it holds, and
   the pass had inserted that key *)
UpdatedItsInsert ==
    /\ log # <<>>
    /\ log[Len(log)].sql = "UPDATE"
    /\ log[Len(log)].key \in Committed("INSERT")
    /\ tool # None
    /\ key(Val(tool)) = log[Len(log)].key

(* C17, amended: a pass commits at most one insert and at most one update for a
   key, and it updates a key it has inserted only when the inserted row was older
   than the staleness window when the stale listing read it: the update_time the
   Tool was read with, the time of the insert, is earlier than now minus the
   window. *)
C17_OneStatsWriteWithinWindow ==
    /\ \A k \in Written : Times("INSERT", k) <= 1 /\ Times("UPDATE", k) <= 1
    /\ UpdatedItsInsert =>
          /\ Val(Val(tool).update_time) >= InitNow
          /\ Val(Val(tool).update_time) < now - Window
          /\ \E i \in NewRows : Matches(runtimes[i], upsert_values(Val(tool)))

(* witness of C17: a pass that lasted longer than the window has returned after it
   inserted a key and then refreshed it *)
C17_Witness ==
    /\ pc = "done"
    /\ UpdatedItsInsert
    /\ \E i \in NewRows :
        /\ row_key(runtimes[i]) = log[Len(log)].key
        /\ runtimes[i].update_time > Val(Val(tool).update_time)

-----------------------------------------------------------------------------
(* C18: every step changes at most one row of the table, the one it appends or the
   one its Tool was read from, and leaves every inactive row as it was. *)
C18_WriteTouchesOneRow ==
    [][/\ Cardinality({i \in 1..Len(runtimes') :
                          i > Len(runtimes) \/ runtimes'[i] # runtimes[i]}) <= 1
       /\ \A i \in 1..Len(runtimes) :
            ~runtimes[i].active => runtimes'[i] = runtimes[i]]_vars

-----------------------------------------------------------------------------
(* the rows this pass has appended or changed *)
TouchedRows == {i \in 1..Len(runtimes) : i \in NewRows \/ runtimes[i] # runtimes0[i]}

(* C19: every row a pass has inserted or updated has a run_count of at least 0 and
   none of its six runtimes is null. *)
C19_NoSentinelCommitted ==
    /\ \A i \in TouchedRows :
        /\ runtimes[i].run_count >= 0
        /\ runtimes[i].min_runtime # None
        /\ runtimes[i].median_runtime # None
        /\ runtimes[i].mean_runtime # None
        /\ runtimes[i].pct95_runtime # None
        /\ runtimes[i].pct99_runtime # None
        /\ runtimes[i].max_runtime # None
    /\ \A k \in Written : \E i \in TouchedRows : row_key(runtimes[i]) = k

(* witness of C19: a pass has inserted one tool and has then ended on a tool
   without runs, whose Tool holds the count 0 and no runtimes *)
C19_Witness ==
    /\ pc = "failed"
    /\ err = "TypeError"
    /\ NewRows # {}
    /\ \E j \in 1..Len(server_tools) :
        /\ server_tools[j].run_count = 0
        /\ server_tools[j].min_runtime = None

-----------------------------------------------------------------------------
(* C20: the entries of a catalog (no two with the same id and version) get keys of
   their own: once get_server_tools has returned, its dict holds one Tool per entry,
   and when the pass has returned every entry has an active row with its tool_id
   and tool_version. *)
C20_OneKeyPerEntry ==
    /\ server_tools # <<>> => Len(server_tools) = Len(catalog)
    /\ (pc = "done" /\ tool_id = None) =>
          \A n \in 1..Len(catalog) :
              \E i \in 1..Len(runtimes) :
                  /\ runtimes[i].active
                  /\ runtimes[i].tool_id = catalog[n].id
                  /\ runtimes[i].tool_version = catalog[n].version

====
